---- MODULE Spec2Model ----
(***************************************************************************)
(* Job queue / task scheduler of src/real-world/job-queue/main.cpp:        *)
(* TaskHandle, Task, TaskComparator, ThreadPool and JobQueue, as a state   *)
(* machine of caller threads, the scheduler thread, the pool's workers and *)
(* the thread that destroys the JobQueue.                                  *)
(*                                                                         *)
(* Time.  steady_clock is kept relative to "now": the field st of a Task   *)
(* is scheduled_time - now in ticks, so is_ready() is st <= 0 and Tick     *)
(* lowers every st by one.  A task more than MaxAge ticks overdue keeps    *)
(* st = -MaxAge (two such tasks compare as equally old).  One tick stands  *)
(* for 50 ms, so the scheduler's fallback poll of 100 ms is PollInterval   *)
(* ticks; durations are whole ticks, on which duration_cast is exact.      *)
(* Spurious wake-ups of the condition waits are left out: a woken thread   *)
(* only tests its predicate again, and no thread may count on one.         *)
(*                                                                         *)
(* Atomicity.  A critical section that holds one mutex and touches only    *)
(* the data it guards is one action, and a statement that touches nothing  *)
(* shared is part of the action before it.  process_ready_queue keeps      *)
(* ready_mutex_ while enqueue takes queue_mutex, so enqueue's lock and     *)
(* unlock are separate steps.  A condition wait is two steps, the test of  *)
(* the predicate and the blocking, because a notify between them is lost.  *)
(* The stop test of line 307 and the pops of lines 313-320 are separate    *)
(* steps, because a stop request can fall between them.                    *)
(*                                                                         *)
(* Destruction.  ~JobQueue and ~ThreadPool run statement by statement;     *)
(* data members are destroyed before the jthreads declared ahead of them   *)
(* are joined.  A thread that then uses a destroyed member has undefined   *)
(* behaviour: either it goes on as if the member were intact (ub is set),  *)
(* or the process dies (Trap).                                             *)
(***************************************************************************)
EXTENDS Integers, Sequences, FiniteSets, TLC

\* ---------------------------------------------------------------- bounds
MaxTasks == 3      \* handles (submit* calls) in one run, at most
MainTasks == 2     \* submit* calls in one run of Spec
MaxDelay == 2      \* largest delay / interval a caller passes, in ticks
NegDelay == 1      \* callers also pass delays down to -NegDelay
MaxAge == 1        \* st saturates at -MaxAge
MaxWorkers == 2    \* num_threads is drawn from 1..MaxWorkers
NumCallers == 1    \* caller threads
MaxCount == 2      \* runs[h] counts invocations up to MaxCount

PollInterval == 2  \* std::chrono::milliseconds(100), in ticks

\* Priority : std::uint8_t { Low = 0, Medium = 1, High = 2 }
Low == 0
Medium == 1
High == 2
Priority == {Low, Medium, High}

Handles == 1..MaxTasks
Delays == (0 - NegDelay)..MaxDelay

Callers == {<<"caller", i>> : i \in 1..NumCallers}
Sched == <<"sched", 0>>
AllWorkers == {<<"worker", i>> : i \in 1..MaxWorkers}
NoThread == <<"none", 0>>
Threads == Callers \cup {Sched} \cup AllWorkers

\* struct Task.  id names the shared cancellation flag (Task::cancelled and
\* TaskHandle::cancelled_ point at the same atomic<bool>); func is the body
\* of that submit* call.
MakeTask(h, p, time, interval, recurring) ==
  [id |-> h, priority |-> p, st |-> time, ri |-> interval, rec |-> recurring]

NoTask == MakeTask(0, Low, 0, 0, FALSE)

VARIABLES
  num_threads,       \* ThreadPool's worker count (constructor argument)
  ready_queue_,      \* JobQueue::ready_queue_ (a set: a heap is unordered)
  scheduled_queue_,  \* JobQueue::scheduled_queue_
  tasks,             \* ThreadPool::tasks, the FIFO of wrappers
  cancelled_,        \* the shared atomic<bool> of each handle
  ready_mutex_, scheduled_mutex_, queue_mutex,   \* owner, or NoThread
  pc,                \* where each thread is
  cur,               \* the Task a thread has in hand
  ready_tasks,       \* scheduler_loop's local vector
  wait_left,         \* ticks until the scheduler's wait_for times out
  notified,          \* threads blocked in a condition wait that were notified
  sched_stop,        \* scheduler_thread_'s stop state
  worker_stop,       \* each worker's stop state
  dtor,              \* where the destroying thread is
  ub,                \* a thread has used a member after its destruction
  next_handle,       \* handles created so far
  stats,             \* get_stats()'s local Stats per caller
  origin,            \* history: which submit* made handle h
  bad_arg,           \* history: h was made with a negative delay or an
                     \* interval <= 0
  runs,              \* history: invocations of h's body started
  early_cancel,      \* history: cancel() came while h's first task was not due
  clean_cancel,      \* history: cancel() came between invocations of h
  left_at_stop,      \* history: handles in scheduled_queue_ at request_stop
  fifo_at_stop       \* history: handles in tasks when the pool was stopped,
                     \* less those a worker has taken since

vars == <<num_threads, ready_queue_, scheduled_queue_, tasks, cancelled_,
          ready_mutex_, scheduled_mutex_, queue_mutex, pc, cur, ready_tasks,
          wait_left, notified, sched_stop, worker_stop, dtor, ub, next_handle,
          stats, origin, bad_arg, runs, early_cancel, clean_cancel,
          left_at_stop, fifo_at_stop>>

queues == <<ready_queue_, scheduled_queue_, tasks>>
mutexes == <<ready_mutex_, scheduled_mutex_, queue_mutex>>
stops == <<sched_stop, worker_stop, dtor, ub>>
history == <<origin, bad_arg, runs, early_cancel, clean_cancel, left_at_stop,
             fifo_at_stop>>

Workers == {w \in AllWorkers : w[2] <= num_threads}

\* ------------------------------------------------------------- helpers
Max(a, b) == IF a >= b THEN a ELSE b
Min(a, b) == IF a <= b THEN a ELSE b

\* Mutant: the Task tests a flag of its own, which no handle ever sets.
is_cancelled_own_flag(t) == FALSE

\* TaskHandle::is_cancelled / Task::is_cancelled
is_cancelled(t) == cancelled_[t.id]

\* Mutant: ready one tick early.
is_ready_early(t) == t.st <= 1

\* Task::is_ready: clock_type::now() >= scheduled_time
is_ready(t) == t.st <= 0

\* Mutant: scheduled_time is compared first, priority only between equal times.
TaskComparator_time_first(a, b) ==
  IF a.st # b.st
    THEN a.st > b.st
    ELSE a.priority < b.priority

\* TaskComparator::operator(): TRUE when a comes after b
TaskComparator(a, b) ==
  IF a.priority # b.priority
    THEN a.priority < b.priority
    ELSE a.st > b.st

\* Mutant: top() is any element (the heap is not kept in order).
Top_any(q) == q

\* priority_queue::top: an element no other element comes before.  Elements
\* the comparator ties may come out in either order.
Top(q) == {t \in q : \A u \in q : ~TaskComparator(t, u)}

\* The clock advancing by one tick, seen from a Task.
Age(t) == IF t = NoTask THEN t ELSE [t EXCEPT !.st = Max(t.st - 1, 0 - MaxAge)]

\* The same for a wrapper handed to the pool: nothing reads scheduled_time
\* after dispatch, so only the ticks still missing to it are kept.
AgeDispatched(t) == [t EXCEPT !.st = Max(t.st - 1, Min(t.st, 0))]

\* The wrapper enqueue() receives: the lambdas of lines 263 and 278 capture
\* the Task.
Wrapper(t) == [t EXCEPT !.st = Max(t.st, 0)]

Bump(n) == Min(n + 1, MaxCount)

\* The wait_duration of scheduler_loop, lines 292-302.
WaitDuration(q) ==
  IF q = {} THEN PollInterval
  ELSE LET next_time == (CHOOSE t \in Top(q) : TRUE).st
       IN IF next_time > 0 THEN next_time ELSE 0

\* condition.notify_one(): one blocked waiter, if any, becomes runnable.
\* W is the set of threads blocked on that condition variable.
NotifyOne(W) ==
  IF W \ notified = {} THEN {notified}
  ELSE {notified \cup {w} : w \in W \ notified}

BlockedWorkers == {w \in Workers : pc[w] = "w_blocked"}
BlockedSched == IF pc[Sched] = "s_wait" THEN {Sched} ELSE {}

\* ~JobQueue has destroyed scheduler_cv_, scheduled_mutex_, scheduled_queue_,
\* ready_mutex_ and ready_queue_ (members go in reverse order of lines
\* 331-344, before scheduler_thread_ is joined).
QueueGone ==
  dtor \in {"d_join_sched", "d_pool_stop", "d_pool_notify", "d_pool_members",
            "d_join", "d_done"}

\* ~ThreadPool has destroyed condition, queue_mutex and tasks (lines 133-136
\* in reverse, before the workers are joined).
PoolGone == dtor \in {"d_join", "d_done"}

\* A step that uses members which are `gone` or not.  Using a destroyed
\* member is undefined: this outcome goes on as if the member were intact,
\* Trap below is the other.
Touch(gone) ==
  /\ ub' = (ub \/ gone)
  /\ UNCHANGED <<sched_stop, worker_stop, dtor>>

\* --------------------------------------------------------------- Init
Init ==
  /\ num_threads \in 1..MaxWorkers
  /\ ready_queue_ = {}
  /\ scheduled_queue_ = {}
  /\ tasks = <<>>
  /\ cancelled_ = [h \in Handles |-> FALSE]
  /\ ready_mutex_ = NoThread
  /\ scheduled_mutex_ = NoThread
  /\ queue_mutex = NoThread
  /\ pc = [t \in Threads |->
             IF t \in Callers THEN "idle"
             ELSE IF t = Sched THEN "s_top"
             ELSE IF t[2] <= num_threads THEN "w_top" ELSE "w_none"]
  /\ cur = [t \in Threads |-> NoTask]
  /\ ready_tasks = <<>>
  /\ wait_left = 0
  /\ notified = {}
  /\ sched_stop = FALSE
  /\ worker_stop = [w \in AllWorkers |-> FALSE]
  /\ dtor = "alive"
  /\ ub = FALSE
  /\ next_handle = 0
  /\ stats = [c \in Callers |-> <<0, 0, 0>>]
  /\ origin = [h \in Handles |-> "none"]
  /\ bad_arg = [h \in Handles |-> FALSE]
  /\ runs = [h \in Handles |-> 0]
  /\ early_cancel = [h \in Handles |-> FALSE]
  /\ clean_cancel = [h \in Handles |-> FALSE]
  /\ left_at_stop = {}
  /\ fifo_at_stop = {}


\* ------------------------------------------------------ caller: submit*
\* Where a thread goes when process_ready_queue returns.
Return(t) ==
  IF t = Sched
    THEN (IF ready_tasks = <<>> THEN "s_top" ELSE "s_promote")
    ELSE "idle"

\* Mutant: add_to_ready_queue pushes and returns; nothing drains.
AddToReadyQueue_no_drain(t, task) ==
  /\ ready_mutex_ = NoThread
  /\ ready_queue_' = ready_queue_ \cup {task}
  /\ pc' = [pc EXCEPT ![t] = Return(t)]

\* add_to_ready_queue, lines 236-239: push under ready_mutex_; the call of
\* process_ready_queue follows.
AddToReadyQueue(t, task) ==
  /\ ready_mutex_ = NoThread
  /\ ready_queue_' = ready_queue_ \cup {task}
  /\ pc' = [pc EXCEPT ![t] = "prq_lock"]

\* add_to_scheduled_queue: push under scheduled_mutex_, then notify_one.
AddToScheduledQueue(task) ==
  /\ scheduled_mutex_ = NoThread
  /\ scheduled_queue_' = scheduled_queue_ \cup {task}
  /\ notified' \in NotifyOne(BlockedSched)

NewHandle(h, how, bad) ==
  /\ next_handle < MaxTasks
  /\ h = next_handle + 1
  /\ next_handle' = h
  /\ origin' = [origin EXCEPT ![h] = how]
  /\ bad_arg' = [bad_arg EXCEPT ![h] = bad]

\* JobQueue::submit
Submit(c, p) ==
  /\ pc[c] = "idle" /\ dtor = "alive"
  /\ \E h \in Handles :
       /\ NewHandle(h, "submit", FALSE)
       /\ AddToReadyQueue(c, MakeTask(h, p, 0, 0, FALSE))
  /\ UNCHANGED <<num_threads, scheduled_queue_, tasks, cancelled_, mutexes,
                 cur, ready_tasks, wait_left, notified, stops, stats, runs,
                 early_cancel, clean_cancel, left_at_stop, fifo_at_stop>>

\* JobQueue::submit_delayed
SubmitDelayed(c, delay, p) ==
  /\ pc[c] = "idle" /\ dtor = "alive"
  /\ \E h \in Handles :
       /\ NewHandle(h, "delayed", delay < 0)
       /\ AddToScheduledQueue(MakeTask(h, p, delay, 0, FALSE))
  /\ UNCHANGED <<num_threads, ready_queue_, tasks, cancelled_, mutexes, pc,
                 cur, ready_tasks, wait_left, stops, stats, runs,
                 early_cancel, clean_cancel, left_at_stop, fifo_at_stop>>

\* JobQueue::submit_recurring
SubmitRecurring(c, interval, p) ==
  /\ pc[c] = "idle" /\ dtor = "alive"
  /\ \E h \in Handles :
       /\ NewHandle(h, "recurring", interval <= 0)
       /\ AddToScheduledQueue(MakeTask(h, p, interval, interval, TRUE))
  /\ UNCHANGED <<num_threads, ready_queue_, tasks, cancelled_, mutexes, pc,
                 cur, ready_tasks, wait_left, stops, stats, runs,
                 early_cancel, clean_cancel, left_at_stop, fifo_at_stop>>

\* A worker is running the body of handle h.
InBody(h) == \E w \in Workers : cur[w].id = h /\ pc[w] = "w_body"

\* Mutant: cancel() also takes the Task out of scheduled_queue_.
Cancel_removes(c, h) ==
  /\ pc[c] = "idle" /\ dtor = "alive"
  /\ h <= next_handle
  /\ cancelled_' = [cancelled_ EXCEPT ![h] = TRUE]
  /\ early_cancel' = [early_cancel EXCEPT ![h] =
       @ \/ (runs[h] = 0 /\ \E t \in scheduled_queue_ : t.id = h /\ t.st > 0)]
  /\ clean_cancel' = [clean_cancel EXCEPT ![h] =
       @ \/ (origin[h] = "recurring" /\ runs[h] >= 1 /\ ~InBody(h))]
  /\ scheduled_queue_' = {t \in scheduled_queue_ : t.id # h}
  /\ UNCHANGED <<num_threads, ready_queue_, tasks, mutexes, pc, cur,
                 ready_tasks,
                 wait_left, notified, stops, next_handle, stats, origin,
                 bad_arg, runs, left_at_stop, fifo_at_stop>>

\* Mutant: the flag lives in the Task, and a handle that outlives its Task
\* writes to freed storage.
Cancel_flag_in_task(c, h) ==
  /\ pc[c] = "idle" /\ dtor = "alive"
  /\ h <= next_handle
  /\ cancelled_' = [cancelled_ EXCEPT ![h] = TRUE]
  /\ early_cancel' = [early_cancel EXCEPT ![h] =
       @ \/ (runs[h] = 0 /\ \E t \in scheduled_queue_ : t.id = h /\ t.st > 0)]
  /\ clean_cancel' = [clean_cancel EXCEPT ![h] =
       @ \/ (origin[h] = "recurring" /\ runs[h] >= 1 /\ ~InBody(h))]
  /\ LET freed ==
           /\ \A t \in ready_queue_ \cup scheduled_queue_ : t.id # h
           /\ \A i \in 1..Len(tasks) : tasks[i].id # h
           /\ \A i \in 1..Len(ready_tasks) : ready_tasks[i].id # h
           /\ \A t \in Threads : cur[t].id # h
     IN ub' = (ub \/ freed)
  /\ UNCHANGED <<num_threads, queues, mutexes, pc, cur, ready_tasks,
                 wait_left, notified, sched_stop, worker_stop, dtor,
                 next_handle, stats, origin, bad_arg, runs, left_at_stop,
                 fifo_at_stop>>

\* Mutant: every handle shares one flag.
Cancel_shared_flag(c, h) ==
  /\ pc[c] = "idle" /\ dtor = "alive"
  /\ h <= next_handle
  /\ cancelled_' = [g \in Handles |-> TRUE]
  /\ early_cancel' = [early_cancel EXCEPT ![h] =
       @ \/ (runs[h] = 0 /\ \E t \in scheduled_queue_ : t.id = h /\ t.st > 0)]
  /\ clean_cancel' = [clean_cancel EXCEPT ![h] =
       @ \/ (origin[h] = "recurring" /\ runs[h] >= 1 /\ ~InBody(h))]
  /\ UNCHANGED <<num_threads, queues, mutexes, pc, cur, ready_tasks,
                 wait_left, notified, stops, next_handle, stats, origin,
                 bad_arg, runs, left_at_stop, fifo_at_stop>>

\* TaskHandle::cancel
Cancel(c, h) ==
  /\ pc[c] = "idle" /\ dtor = "alive"
  /\ h <= next_handle
  /\ cancelled_' = [cancelled_ EXCEPT ![h] = TRUE]
  /\ early_cancel' = [early_cancel EXCEPT ![h] =
       @ \/ (runs[h] = 0 /\ \E t \in scheduled_queue_ : t.id = h /\ t.st > 0)]
  /\ clean_cancel' = [clean_cancel EXCEPT ![h] =
       @ \/ (origin[h] = "recurring" /\ runs[h] >= 1 /\ ~InBody(h))]
  /\ UNCHANGED <<num_threads, queues, mutexes, pc, cur, ready_tasks,
                 wait_left, notified, stops, next_handle, stats, origin,
                 bad_arg, runs, left_at_stop, fifo_at_stop>>

\* Mutant: the drain hands the top task on and leaves it in the queue.
RECURSIVE NextReady_not_popped(_)
NextReady_not_popped(q) ==
  IF q = {} THEN {[q |-> {}, t |-> NoTask]}
  ELSE UNION {IF is_cancelled(t) THEN NextReady_not_popped(q \ {t})
              ELSE {[q |-> q, t |-> t]}
              : t \in Top(q)}

\* ----------------------------------------------- process_ready_queue
\* lines 253-259 on queue q: pop until a task that is not cancelled comes
\* out (t) or the queue is empty (t = NoTask).  Every outcome [q, t].
RECURSIVE NextReady(_)
NextReady(q) ==
  IF q = {} THEN {[q |-> {}, t |-> NoTask]}
  ELSE UNION {IF is_cancelled(t) THEN NextReady(q \ {t})
              ELSE {[q |-> q \ {t}, t |-> t]}
              : t \in Top(q)}

\* One turn of the while loop, ready_mutex_ held by thread t: up to the call
\* of enqueue, or to the return that unlocks.
LoopTurn(t) ==
  \E r \in NextReady(ready_queue_) :
    /\ ready_queue_' = r.q
    /\ cur' = [cur EXCEPT ![t] = r.t]
    /\ IF r.t = NoTask
         THEN /\ ready_mutex_' = NoThread
              /\ pc' = [pc EXCEPT ![t] = Return(t)]
         ELSE /\ ready_mutex_' = t
              /\ pc' = [pc EXCEPT ![t] = "enq"]

\* line 252, std::lock_guard lock(ready_mutex_), and the first turn.
ProcessLock(t) ==
  /\ pc[t] = "prq_lock"
  /\ ready_mutex_ = NoThread
  /\ LoopTurn(t)
  /\ UNCHANGED <<num_threads, scheduled_queue_, tasks, cancelled_,
                 scheduled_mutex_, queue_mutex, ready_tasks, wait_left,
                 notified, next_handle, stats, history>>
  /\ Touch(QueueGone)

\* Mutant: no pool; the draining thread calls the wrapper itself.
Enqueue_runs_inline(t) ==
  /\ pc[t] = "enq"
  /\ pc' = [pc EXCEPT ![t] = "w_body"]
  /\ runs' = [runs EXCEPT ![cur[t].id] = Bump(@)]
  /\ UNCHANGED <<num_threads, queues, cancelled_, mutexes, cur, ready_tasks,
                 wait_left, notified, stops, next_handle, stats, origin,
                 bad_arg, early_cancel, clean_cancel, left_at_stop,
                 fifo_at_stop>>

\* Mutant: enqueue puts the wrapper at the front of the queue.
Enqueue_at_front(t) ==
  /\ pc[t] = "enq"
  /\ queue_mutex = NoThread
  /\ queue_mutex' = t
  /\ tasks' = <<Wrapper(cur[t])>> \o tasks
  /\ pc' = [pc EXCEPT ![t] = "enq_unlock"]
  /\ UNCHANGED <<num_threads, ready_queue_, scheduled_queue_, cancelled_,
                 ready_mutex_, scheduled_mutex_, cur, ready_tasks, wait_left,
                 notified, next_handle, stats, history>>
  /\ Touch(PoolGone)

\* ThreadPool::enqueue, lines 120-123: the wrapper goes to the FIFO's back.
Enqueue(t) ==
  /\ pc[t] = "enq"
  /\ queue_mutex = NoThread
  /\ queue_mutex' = t
  /\ tasks' = Append(tasks, Wrapper(cur[t]))
  /\ pc' = [pc EXCEPT ![t] = "enq_unlock"]
  /\ UNCHANGED <<num_threads, ready_queue_, scheduled_queue_, cancelled_,
                 ready_mutex_, scheduled_mutex_, cur, ready_tasks, wait_left,
                 notified, next_handle, stats, history>>
  /\ Touch(PoolGone)

\* ThreadPool::enqueue, lines 123-124: unlock, condition.notify_one(); then
\* the next turn of process_ready_queue's loop.
EnqueueUnlock(t) ==
  /\ pc[t] = "enq_unlock"
  /\ queue_mutex' = NoThread
  /\ notified' \in NotifyOne(BlockedWorkers)
  /\ LoopTurn(t)
  /\ UNCHANGED <<num_threads, scheduled_queue_, tasks, cancelled_,
                 scheduled_mutex_, ready_tasks, wait_left, next_handle,
                 stats, history>>
  /\ Touch(QueueGone \/ PoolGone)

\* ------------------------------------------------------ scheduler_loop
\* lines 288-305: the loop test, the lock, the wait_duration, and wait_for's
\* first look at its predicate (stop_requested).
SchedLock ==
  /\ pc[Sched] = "s_top"
  /\ IF sched_stop
       THEN /\ pc' = [pc EXCEPT ![Sched] = "s_exit"]
            /\ UNCHANGED <<scheduled_mutex_, wait_left>>
       ELSE /\ scheduled_mutex_ = NoThread
            /\ scheduled_mutex_' = Sched
            /\ wait_left' = WaitDuration(scheduled_queue_)
            /\ pc' = [pc EXCEPT ![Sched] = "s_prewait"]
  /\ UNCHANGED <<num_threads, queues, cancelled_, ready_mutex_, queue_mutex,
                 cur, ready_tasks, notified, stops, next_handle, stats,
                 history>>

\* wait_for: the predicate was false; the lock is released and the thread
\* blocks on scheduler_cv_.
SchedBlock ==
  /\ pc[Sched] = "s_prewait"
  /\ scheduled_mutex_' = NoThread
  /\ pc' = [pc EXCEPT ![Sched] = "s_wait"]
  /\ UNCHANGED <<num_threads, queues, cancelled_, ready_mutex_, queue_mutex,
                 cur, ready_tasks, wait_left, notified, next_handle,
                 stats, history>>
  /\ Touch(QueueGone)

\* What the scheduler does with the lock back after its wait ended for
\* `timeout` or not: wait_for returns on a timeout or a true predicate, and
\* line 307 breaks on stop; a wake-up that finds neither waits again, until
\* the same deadline.
AfterWake(timeout) ==
  /\ scheduled_mutex_ = NoThread
  /\ notified' = notified \ {Sched}
  /\ IF sched_stop
       THEN /\ pc' = [pc EXCEPT ![Sched] = "s_exit"]
            /\ wait_left' = 0
            /\ UNCHANGED scheduled_mutex_
       ELSE /\ scheduled_mutex_' = Sched
            /\ pc' = [pc EXCEPT ![Sched] =
                        IF timeout THEN "s_pops" ELSE "s_prewait"]
            /\ UNCHANGED wait_left
  /\ UNCHANGED <<num_threads, queues, cancelled_, ready_mutex_, queue_mutex,
                 cur, ready_tasks, next_handle, stats, history>>
  /\ Touch(QueueGone)

\* wait_for: the deadline passed.
SchedTimeout ==
  /\ pc[Sched] = "s_wait"
  /\ wait_left = 0
  /\ AfterWake(TRUE)

\* wait_for: woken by notify_one / notify_all before the deadline.
SchedNotified ==
  /\ pc[Sched] = "s_wait"
  /\ Sched \in notified
  /\ wait_left > 0
  /\ AfterWake(FALSE)

\* The loop of lines 313-320 on queue q with acc collected so far: every
\* outcome [q, v], one per order in which tied elements can come out.
\* Mutant: the loop stops at a cancelled task instead of discarding it.
PopCondition_stops_at_cancelled(q) ==
  /\ q # {}
  /\ LET t == CHOOSE t \in Top(q) : TRUE IN is_ready(t) /\ ~is_cancelled(t)

\* line 313: !scheduled_queue_.empty() && scheduled_queue_.top().is_ready()
PopCondition(q) ==
  /\ q # {}
  /\ is_ready(CHOOSE t \in Top(q) : TRUE)

RECURSIVE PopReady(_, _)
PopReady(q, acc) ==
  IF ~PopCondition(q)
    THEN {[q |-> q, v |-> acc]}
    ELSE UNION {PopReady(q \ {t},
                         IF is_cancelled(t) THEN acc ELSE Append(acc, t))
                : t \in Top(q)}

\* Mutant: the scheduler keeps scheduled_mutex_ while it promotes.
AfterPops_lock_kept == Sched

\* line 322: lock.unlock() before the tasks go to the ready queue.
AfterPops == NoThread

\* lines 312-322: move the due tasks into ready_tasks, unlock.
SchedPops ==
  /\ pc[Sched] = "s_pops"
  /\ \E r \in PopReady(scheduled_queue_, <<>>) :
       /\ scheduled_queue_' = r.q
       /\ ready_tasks' = r.v
       /\ pc' = [pc EXCEPT ![Sched] =
                   IF r.v = <<>> THEN "s_top" ELSE "s_promote"]
  /\ scheduled_mutex_' = AfterPops
  /\ UNCHANGED <<num_threads, ready_queue_, tasks, cancelled_, ready_mutex_,
                 queue_mutex, cur, wait_left, notified, next_handle,
                 stats, history>>
  /\ Touch(QueueGone)

\* lines 325-327: add_to_ready_queue for the next task of ready_tasks.
SchedPromote ==
  /\ pc[Sched] = "s_promote"
  /\ AddToReadyQueue(Sched, Head(ready_tasks))
  /\ ready_tasks' = Tail(ready_tasks)
  /\ UNCHANGED <<num_threads, scheduled_queue_, tasks, cancelled_, mutexes,
                 cur, wait_left, notified, next_handle, stats,
                 history>>
  /\ Touch(QueueGone)

\* -------------------------------------------------- ThreadPool worker
\* line 86: while (!st.stop_requested())
LoopTest(w) == IF worker_stop[w] THEN "w_exit" ELSE "w_lock"

\* The thread starts: the first loop test.
WorkerTop(w) ==
  /\ pc[w] = "w_top"
  /\ pc' = [pc EXCEPT ![w] = LoopTest(w)]
  /\ UNCHANGED <<num_threads, queues, cancelled_, mutexes, cur, ready_tasks,
                 wait_left, notified, stops, next_handle, stats, history>>

\* Mutant: the wrapper calls task->func() without the test.
WrapperCheck_missing(t) == TRUE

\* The wrapper's first test, lines 264 and 279: if (!task->is_cancelled())
WrapperCheck(t) == ~is_cancelled(t)

\* Mutant: the lock's scope takes in task(), and the worker keeps
\* queue_mutex.
AfterPop_lock_kept(w) == w

\* line 100: the scope of the unique_lock ends before task(); queue_mutex is
\* free again.
AfterPop(w) == NoThread

\* Mutant: the worker copies front() and leaves it in the queue.
Popped_front_kept(q) == q

\* line 99, tasks.pop(): the queue without its front.
Popped(q) == Tail(q)

\* lines 89-101 with queue_mutex taken (first, or again after a notify): the
\* wait's predicate; the return on stop with an empty FIFO; or the pop of
\* the front and task(), which enters task->func() unless the flag is set.
WorkerLock(w) ==
  /\ \/ pc[w] = "w_lock"
     \/ pc[w] = "w_blocked" /\ w \in notified
  /\ queue_mutex = NoThread
  /\ notified' = notified \ {w}
  /\ IF tasks # <<>>
       THEN /\ tasks' = Popped(tasks)
            /\ fifo_at_stop' = fifo_at_stop \ {Head(tasks).id}
            /\ IF WrapperCheck(Head(tasks))
                 THEN /\ cur' = [cur EXCEPT ![w] = Head(tasks)]
                      /\ runs' = [runs EXCEPT ![Head(tasks).id] = Bump(@)]
                      /\ pc' = [pc EXCEPT ![w] = "w_body"]
                 ELSE /\ pc' = [pc EXCEPT ![w] = LoopTest(w)]
                      /\ UNCHANGED <<cur, runs>>
            /\ queue_mutex' = AfterPop(w)
       ELSE IF worker_stop[w]
         THEN /\ pc' = [pc EXCEPT ![w] = "w_exit"]
              /\ UNCHANGED <<cur, tasks, queue_mutex, runs, fifo_at_stop>>
         ELSE /\ queue_mutex' = w
              /\ pc' = [pc EXCEPT ![w] = "w_prewait"]
              /\ UNCHANGED <<cur, tasks, runs, fifo_at_stop>>
  /\ UNCHANGED <<num_threads, ready_queue_, scheduled_queue_, cancelled_,
                 ready_mutex_, scheduled_mutex_, ready_tasks, wait_left,
                 next_handle, stats, origin, bad_arg, early_cancel,
                 clean_cancel, left_at_stop>>
  /\ Touch(PoolGone)

\* condition.wait: the predicate was false; unlock and block.
WorkerBlock(w) ==
  /\ pc[w] = "w_prewait"
  /\ queue_mutex' = NoThread
  /\ pc' = [pc EXCEPT ![w] = "w_blocked"]
  /\ UNCHANGED <<num_threads, queues, cancelled_, ready_mutex_,
                 scheduled_mutex_, cur, ready_tasks, wait_left, notified,
                 next_handle, stats, history>>
  /\ Touch(PoolGone)

\* The wrapper's second test, line 268 (recurring wrapper only).
Reschedules(t) == t.rec /\ ~is_cancelled(t)

\* Mutant: next_task is due at once, the interval is not added.
NextTask_no_interval(t) == MakeTask(t.id, t.priority, 0, t.ri, TRUE)

\* lines 269-272: next_task, with scheduled_time = now() + interval.
NextTask(t) == MakeTask(t.id, t.priority, t.ri, t.ri, TRUE)

\* task->func() returns; the recurring wrapper builds next_task unless the
\* flag is set; otherwise the wrapper returns to the loop test.
WorkerReturn(w) ==
  /\ pc[w] = "w_body"
  /\ IF Reschedules(cur[w])
       THEN /\ pc' = [pc EXCEPT ![w] = "w_resched"]
            /\ cur' = [cur EXCEPT ![w] = NextTask(cur[w])]
       ELSE /\ pc' = [pc EXCEPT ![w] = LoopTest(w)]
            /\ cur' = [cur EXCEPT ![w] = NoTask]
  /\ UNCHANGED <<num_threads, queues, cancelled_, mutexes, ready_tasks,
                 wait_left, notified, stops, next_handle, stats, history>>

\* Mutant: next_task gets a flag of its own, clear, instead of the
\* chain's.
WorkerResched_fresh_flag(w) ==
  /\ pc[w] = "w_resched"
  /\ AddToScheduledQueue(cur[w])
  /\ cur' = [cur EXCEPT ![w] = NoTask]
  /\ pc' = [pc EXCEPT ![w] = LoopTest(w)]
  /\ cancelled_' = [cancelled_ EXCEPT ![cur[w].id] = FALSE]
  /\ UNCHANGED <<num_threads, ready_queue_, tasks, mutexes,
                 ready_tasks, wait_left, next_handle, stats, history>>
  /\ Touch(QueueGone)

\* line 273: add_to_scheduled_queue(next_task); the wrapper returns.
WorkerResched(w) ==
  /\ pc[w] = "w_resched"
  /\ AddToScheduledQueue(cur[w])
  /\ cur' = [cur EXCEPT ![w] = NoTask]
  /\ pc' = [pc EXCEPT ![w] = LoopTest(w)]
  /\ UNCHANGED <<num_threads, ready_queue_, tasks, cancelled_, mutexes,
                 ready_tasks, wait_left, next_handle, stats, history>>
  /\ Touch(QueueGone)

\* Mutant: one lock_guard for the whole of get_stats; ready_mutex_ is kept.
AfterRead_lock_kept(c) == c

\* line 225: the scope of the lock_guard ends with the read; the mutex is
\* free again.
AfterRead(c) == NoThread

\* --------------------------------------------------------- get_stats
\* lines 222-225
GetStatsReady(c) ==
  /\ pc[c] = "idle" /\ dtor = "alive"
  /\ ready_mutex_ = NoThread
  /\ stats' = [stats EXCEPT ![c] = <<Cardinality(ready_queue_), 0, 0>>]
  /\ pc' = [pc EXCEPT ![c] = "gs_sched"]
  /\ ready_mutex_' = AfterRead(c)
  /\ UNCHANGED <<num_threads, queues, cancelled_, scheduled_mutex_,
                 queue_mutex, cur, ready_tasks, wait_left, notified, stops,
                 next_handle, history>>

\* lines 226-229
GetStatsScheduled(c) ==
  /\ pc[c] = "gs_sched"
  /\ scheduled_mutex_ = NoThread
  /\ stats' = [stats EXCEPT ![c][2] = Cardinality(scheduled_queue_)]
  /\ pc' = [pc EXCEPT ![c] = "gs_pool"]
  /\ UNCHANGED <<num_threads, queues, cancelled_, mutexes, cur, ready_tasks,
                 wait_left, notified, stops, next_handle, history>>

\* Mutant: the items workers are running are counted as well.
pending_tasks_with_running ==
  Len(tasks) + Cardinality({w \in Workers : pc[w] = "w_body"})

\* ThreadPool::pending_tasks
pending_tasks == Len(tasks)

\* line 230
GetStatsPool(c) ==
  /\ pc[c] = "gs_pool"
  /\ queue_mutex = NoThread
  /\ stats' = [stats EXCEPT ![c][3] = pending_tasks]
  /\ pc' = [pc EXCEPT ![c] = "gs_done"]
  /\ UNCHANGED <<num_threads, queues, cancelled_, mutexes, cur, ready_tasks,
                 wait_left, notified, stops, next_handle, history>>

\* line 231: return stats
GetStatsReturn(c) ==
  /\ pc[c] = "gs_done"
  /\ stats' = [stats EXCEPT ![c] = <<0, 0, 0>>]
  /\ pc' = [pc EXCEPT ![c] = "idle"]
  /\ UNCHANGED <<num_threads, queues, cancelled_, mutexes, cur, ready_tasks,
                 wait_left, notified, stops, next_handle, history>>

\* ------------------------------------------------------- destruction
CallersIdle == \A c \in Callers : pc[c] = "idle"

\* Handles whose task is in scheduled_queue_.  A handle has one task at a
\* time, so such a task is nowhere else.
InScheduledQueue == {t.id : t \in scheduled_queue_}

\* ~JobQueue, line 148: scheduler_thread_.request_stop().  The owner destroys
\* the queue when no call on it is in progress.
JobQueueStop ==
  /\ dtor = "alive"
  /\ CallersIdle
  /\ sched_stop' = TRUE
  /\ left_at_stop' = InScheduledQueue
  /\ dtor' = "d_notify"
  /\ UNCHANGED <<num_threads, queues, cancelled_, mutexes, pc, cur,
                 ready_tasks, wait_left, notified, worker_stop, ub,
                 next_handle, stats, origin, bad_arg, runs, early_cancel,
                 clean_cancel, fifo_at_stop>>

\* ~JobQueue, line 149: scheduler_cv_.notify_all().
JobQueueNotify ==
  /\ dtor = "d_notify"
  /\ notified' = notified \cup BlockedSched
  /\ dtor' = "d_members"
  /\ UNCHANGED <<num_threads, queues, cancelled_, mutexes, pc, cur,
                 ready_tasks, wait_left, sched_stop, worker_stop, ub,
                 next_handle, stats, history>>

\* The members after scheduler_thread_ are destroyed (lines 334-344, last
\* first); the scheduler thread may still be running.
JobQueueMembers ==
  /\ dtor = "d_members"
  /\ dtor' = "d_join_sched"
  /\ UNCHANGED <<num_threads, queues, cancelled_, mutexes, pc, cur,
                 ready_tasks, wait_left, notified, sched_stop, worker_stop,
                 ub, next_handle, stats, history>>

\* ~jthread of scheduler_thread_ (line 332): join.
JoinScheduler ==
  /\ dtor = "d_join_sched"
  /\ pc[Sched] = "s_exit"
  /\ dtor' = "d_pool_stop"
  /\ UNCHANGED <<num_threads, queues, cancelled_, mutexes, pc, cur,
                 ready_tasks, wait_left, notified, sched_stop, worker_stop,
                 ub, next_handle, stats, history>>

\* ~ThreadPool, lines 108-110: request_stop on the next worker of the
\* vector; fifo_at_stop is taken when the last one has it.
PoolStop ==
  /\ dtor = "d_pool_stop"
  /\ \E w \in Workers :
       /\ ~worker_stop[w]
       /\ \A v \in Workers : v[2] < w[2] => worker_stop[v]
       /\ worker_stop' = [worker_stop EXCEPT ![w] = TRUE]
       /\ IF w[2] = num_threads
            THEN /\ dtor' = "d_pool_notify"
                 /\ fifo_at_stop' = {tasks[i].id : i \in 1..Len(tasks)}
            ELSE UNCHANGED <<dtor, fifo_at_stop>>
  /\ UNCHANGED <<num_threads, queues, cancelled_, mutexes, pc, cur,
                 ready_tasks, wait_left, notified, sched_stop, ub,
                 next_handle, stats, origin, bad_arg, runs, early_cancel,
                 clean_cancel, left_at_stop>>

\* ~ThreadPool, line 111: condition.notify_all().
PoolNotify ==
  /\ dtor = "d_pool_notify"
  /\ notified' = notified \cup BlockedWorkers
  /\ dtor' = "d_pool_members"
  /\ UNCHANGED <<num_threads, queues, cancelled_, mutexes, pc, cur,
                 ready_tasks, wait_left, sched_stop, worker_stop, ub,
                 next_handle, stats, history>>

\* condition, queue_mutex and tasks are destroyed (lines 134-136, last
\* first); workers may still be running.
PoolMembers ==
  /\ dtor = "d_pool_members"
  /\ dtor' = "d_join"
  /\ UNCHANGED <<num_threads, queues, cancelled_, mutexes, pc, cur,
                 ready_tasks, wait_left, notified, sched_stop, worker_stop,
                 ub, next_handle, stats, history>>

\* ~vector<jthread> of workers (line 133): every worker is joined.
JoinWorkers ==
  /\ dtor = "d_join"
  /\ \A w \in Workers : pc[w] = "w_exit"
  /\ dtor' = "d_done"
  /\ UNCHANGED <<num_threads, queues, cancelled_, mutexes, pc, cur,
                 ready_tasks, wait_left, notified, sched_stop, worker_stop,
                 ub, next_handle, stats, history>>

\* The next step of thread t uses a destroyed member.
UsesGone(t) ==
  \/ /\ QueueGone
     /\ pc[t] \in {"s_prewait", "s_wait", "s_pops", "s_promote", "prq_lock",
                   "enq_unlock", "w_resched"}
  \/ /\ PoolGone
     /\ pc[t] \in {"enq", "enq_unlock", "w_lock", "w_prewait", "w_blocked"}

\* The other outcome of using a destroyed member: the process dies there,
\* with all its threads.
Trap ==
  /\ \E t \in {Sched} \cup Workers : UsesGone(t)
  /\ pc' = [t \in Threads |-> "trap"]
  /\ dtor' = "dead"
  /\ ub' = TRUE
  /\ UNCHANGED <<num_threads, queues, cancelled_, mutexes, cur, ready_tasks,
                 wait_left, notified, sched_stop, worker_stop, next_handle,
                 stats, history>>

Destructor ==
  \/ JobQueueStop
  \/ JobQueueNotify
  \/ JobQueueMembers
  \/ JoinScheduler
  \/ PoolStop
  \/ PoolNotify
  \/ PoolMembers
  \/ JoinWorkers

\* ------------------------------------------------------------- clock
\* steady_clock advances by one tick.
Tick ==
  /\ ready_queue_' = {Age(t) : t \in ready_queue_}
  /\ scheduled_queue_' = {Age(t) : t \in scheduled_queue_}
  /\ tasks' = [i \in 1..Len(tasks) |-> AgeDispatched(tasks[i])]
  /\ ready_tasks' = [i \in 1..Len(ready_tasks) |-> Age(ready_tasks[i])]
  /\ cur' = [t \in Threads |->
               IF t \in AllWorkers /\ pc[t] # "w_resched"
                 THEN AgeDispatched(cur[t]) ELSE Age(cur[t])]
  /\ wait_left' = Max(wait_left - 1, 0)
  /\ UNCHANGED <<num_threads, cancelled_, mutexes, pc, notified, stops,
                 next_handle, stats, history>>

\* ------------------------------------------------------------- Next
\* process_ready_queue as run by thread t.
DrainOf(t) ==
  \/ ProcessLock(t)
  \/ Enqueue(t)
  \/ EnqueueUnlock(t)

DrainStep == \E t \in Callers \cup {Sched} : DrainOf(t)

SchedStep ==
  \/ SchedLock
  \/ SchedBlock
  \/ SchedTimeout
  \/ SchedNotified
  \/ SchedPops
  \/ SchedPromote

\* The loop of worker w.
WorkerOf(w) ==
  /\ w \in Workers
  /\ \/ WorkerTop(w)
     \/ WorkerLock(w)
     \/ WorkerBlock(w)
     \/ WorkerReturn(w)
     \/ WorkerResched(w)

WorkerStep == \E w \in AllWorkers : WorkerOf(w)

\* The JobQueue at work: scheduler, drains, workers and the clock.
Engine ==
  \/ DrainStep
  \/ SchedStep
  \/ WorkerStep
  \/ Tick


\* ------------------------------------------------------ specifications
\* Callers of Spec: MainTasks submissions of any kind with valid arguments,
\* and cancel() on any handle made so far.
MainPriority == {Low, High}
MainDelays == 0..1
MainIntervals == 1..1

CallerMain ==
  \E c \in Callers :
    \/ \E p \in MainPriority : next_handle < MainTasks /\ Submit(c, p)
    \/ \E p \in MainPriority, d \in MainDelays :
         next_handle < MainTasks /\ SubmitDelayed(c, d, p)
    \/ \E p \in MainPriority, d \in MainIntervals :
         next_handle < MainTasks /\ SubmitRecurring(c, d, p)
    \/ \E h \in Handles : Cancel(c, h)

Next ==
  \/ CallerMain
  \/ Engine

Spec == Init /\ [][Next]_vars

\* Callers that only submit(): MaxTasks immediate tasks of any priority.
\* The scheduler only polls its empty queue.
CallerSubmit == \E c \in Callers, p \in Priority : Submit(c, p)

SchedPoll ==
  \/ SchedLock
  \/ SchedBlock
  \/ SchedTimeout
  \/ SchedPops

WorkerPlain ==
  \E w \in Workers :
    \/ WorkerTop(w)
    \/ WorkerLock(w)
    \/ WorkerBlock(w)
    \/ WorkerReturn(w)

NextOrder ==
  \/ CallerSubmit
  \/ DrainStep
  \/ SchedPoll
  \/ WorkerPlain
  \/ Tick

SpecOrder == Init /\ [][NextOrder]_vars

\* Handle h was made by submit or submit_delayed.
OneShot(h) == origin[h] \in {"submit", "delayed"}

\* Handle h has nothing more to do: a one-shot task has run to completion or
\* is cancelled, a recurring task is cancelled.
Settled(h) ==
  \/ origin[h] = "none"
  \/ cancelled_[h]
  \/ OneShot(h) /\ runs[h] >= 1 /\ ~InBody(h)

\* Scheduling: every thread of the JobQueue that can take a step, or can
\* again and again (a mutex that keeps coming free), eventually takes it, and
\* the clock advances.  Callers are free to stop calling.
Fairness ==
  /\ SF_vars(SchedStep)
  /\ \A t \in Callers \cup {Sched} : SF_vars(DrainOf(t))
  /\ \A w \in AllWorkers : SF_vars(WorkerOf(w))
  /\ WF_vars(Tick)

\* A pool of one worker; callers submit delayed tasks of low priority and
\* recurring tasks of high priority, and never cancel.
InitOne == Init /\ num_threads = 1

CallerStarve ==
  \E c \in Callers :
    \/ SubmitDelayed(c, 1, Low)
    \/ SubmitRecurring(c, 1, High)

NextStarve ==
  \/ CallerStarve
  \/ Engine

SpecStarve == InitOne /\ [][NextStarve]_vars /\ Fairness

\* Callers that submit up to MainTasks tasks, cancel the recurring ones, and
\* call get_stats once every task is settled.
CallerStats ==
  \E c \in Callers :
    \/ next_handle < MainTasks /\ SubmitDelayed(c, 1, Low)
    \/ next_handle < MainTasks /\ SubmitRecurring(c, 1, High)
    \/ \E h \in Handles : origin[h] = "recurring" /\ Cancel(c, h)
    \/ (\A h \in Handles : Settled(h)) /\ GetStatsReady(c)
    \/ GetStatsScheduled(c)
    \/ GetStatsPool(c)
    \/ GetStatsReturn(c)

NextStats ==
  \/ CallerStats
  \/ Engine

\* A get_stats call that has started runs to its return.
FairStats ==
  \A c \in Callers :
    SF_vars(GetStatsScheduled(c) \/ GetStatsPool(c) \/ GetStatsReturn(c))

SpecStats == InitOne /\ [][NextStats]_vars /\ Fairness /\ FairStats

\* Callers that pass any delay and any interval of Delays, the negative ones
\* and zero included.
CallerArgs ==
  \E c \in Callers :
    /\ next_handle < MainTasks
    /\ \/ \E d \in Delays : SubmitDelayed(c, d, Low)
       \/ \E d \in Delays : SubmitRecurring(c, d, Low)

NextArgs ==
  \/ CallerArgs
  \/ Engine

SpecArgs == InitOne /\ [][NextArgs]_vars

\* Callers that submit immediate and delayed tasks; the owner destroys the
\* queue at any moment.
CallerShutdown ==
  \E c \in Callers :
    /\ next_handle < MainTasks
    /\ \/ Submit(c, Low)
       \/ \E d \in MainDelays : SubmitDelayed(c, d, Low)

NextShutdown ==
  \/ CallerShutdown
  \/ DrainStep
  \/ SchedStep
  \/ WorkerPlain
  \/ Tick
  \/ Destructor
  \/ Trap

SpecShutdown == Init /\ [][NextShutdown]_vars

\* Bodies that may run for ever: every thread is scheduled as in Fairness,
\* but no body ever has to return.
WorkerBusyOf(w) ==
  /\ w \in Workers
  /\ \/ WorkerTop(w)
     \/ WorkerLock(w)
     \/ WorkerBlock(w)
     \/ WorkerResched(w)

FairnessBusy ==
  /\ SF_vars(SchedStep)
  /\ \A t \in Callers \cup {Sched} : SF_vars(DrainOf(t))
  /\ \A w \in AllWorkers : SF_vars(WorkerBusyOf(w))
  /\ WF_vars(Tick)

\* Callers that submit tasks of every kind.
CallerBusy ==
  \E c \in Callers :
    /\ next_handle < MainTasks
    /\ \/ Submit(c, Low)
       \/ SubmitDelayed(c, 1, Low)
       \/ SubmitRecurring(c, 1, Low)

NextBusy ==
  \/ CallerBusy
  \/ Engine

SpecBusy == Init /\ [][NextBusy]_vars /\ FairnessBusy

\* ----------------------------------------------------------- claims
\* A worker enters the body of a task in this step.
Starts(w) == pc[w] # "w_body" /\ pc'[w] = "w_body"


\* C1: with one worker and submit() calls made one after another, bodies
\* start in order of descending priority and, within a priority, in
\* submission order: when a body starts and every submit() has returned, no
\* task still waiting in the pool has a higher priority, or the same
\* priority and an earlier submission.
C1_StartsInPriorityOrder ==
  [][\A w \in Workers :
       (num_threads = 1 /\ Starts(w) /\ CallersIdle) =>
         \A i \in 1..Len(tasks') :
           /\ tasks'[i].priority <= cur'[w].priority
           /\ tasks'[i].priority = cur'[w].priority
                => tasks'[i].id > cur'[w].id]_vars

\* The part of C1 the code keeps: within one priority, submission order.
C1_EqualPriorityInSubmissionOrder ==
  [][\A w \in Workers :
       (num_threads = 1 /\ Starts(w) /\ CallersIdle) =>
         \A i \in 1..Len(tasks') :
           tasks'[i].priority = cur'[w].priority
             => tasks'[i].id > cur'[w].id]_vars


\* Handle h has no Task left anywhere: not queued, not in a thread's hands.
Gone(h) ==
  /\ \A t \in ready_queue_ \cup scheduled_queue_ : t.id # h
  /\ \A i \in 1..Len(tasks) : tasks[i].id # h
  /\ \A i \in 1..Len(ready_tasks) : ready_tasks[i].id # h
  /\ \A t \in Threads : cur[t].id # h

\* C2: a task whose handle was cancelled before its scheduled_time was
\* reached (for a recurring task: before its first firing was due) never has
\* its body invoked.
C2_CancelledBeforeDueNeverRuns ==
  \A h \in Handles : early_cancel[h] => runs[h] = 0

\* C2's case: a handle cancelled before it was due whose task the scheduler
\* has since popped and dropped.
C2_Witness ==
  \E h \in Handles : early_cancel[h] /\ Gone(h) /\ runs[h] = 0

\* C3: no body starts before its scheduled_time: a worker that is in a body
\* holds a task whose scheduled_time has been reached (no tick is missing),
\* whatever else is queued.
C3_NoStartBeforeScheduledTime ==
  \A w \in Workers : pc[w] = "w_body" => cur[w].st <= 0

\* C3's case: the body of a recurring task (interval >= 1 tick) is running,
\* and so is running no earlier than its interval after submission, while
\* another task is still queued.
C3_Witness ==
  \E w \in Workers :
    /\ pc[w] = "w_body" /\ cur[w].rec /\ cur[w].ri >= 1
    /\ scheduled_queue_ # {}

\* C5: once cancel() was called on a recurring task's handle between two
\* invocations (after at least one invocation, and while no invocation is
\* running), no further invocation of that body starts.
C5_NoInvocationAfterCancel ==
  [][\A w \in Workers : Starts(w) => ~clean_cancel[cur'[w].id]]_vars

\* C5's case: a recurring chain that ran, was cancelled between invocations
\* and whose next Task has been dropped.
C5_Witness ==
  \E h \in Handles : clean_cancel[h] /\ runs[h] >= 1 /\ Gone(h)



\* C4: every one-shot task (submit, submit_delayed) whose handle is never
\* cancelled, on a queue that is not shut down, eventually has its body
\* executed, and executed exactly once: from some point on every one-shot
\* task submitted has run once.
C4_EventuallyExactlyOnce ==
  <>[](\A h \in Handles : OneShot(h) => runs[h] = 1)

\* C6: once every one-shot task has completed and every recurring task is
\* cancelled, get_stats() calls eventually return {0, 0, 0} and keep doing
\* so: the cancelled tasks left in scheduled_queue_ are popped and dropped.
C6_StatsEventuallyZero ==
  <>[](\A h \in Handles : Settled(h))
    => <>[](/\ scheduled_queue_ = {}
            /\ \A c \in Callers : pc[c] = "gs_done" => stats[c] = <<0, 0, 0>>)

C6_Witness ==
  /\ \E c \in Callers : pc[c] = "gs_done" /\ stats[c] = <<0, 0, 0>>
  /\ \E h \in Handles : origin[h] = "recurring" /\ cancelled_[h] /\ runs[h] >= 1
  /\ \E h \in Handles : OneShot(h) /\ runs[h] = 1
  /\ \A h \in Handles : Settled(h)

\* C7: submit_delayed with a negative delay and submit_recurring with an
\* interval <= 0 are rejected at submission: no Task of that call is in any
\* queue, and its body never runs.
C7_InvalidArgumentRejected ==
  \A h \in Handles : bad_arg[h] => (Gone(h) /\ runs[h] = 0)

AllExited == \A w \in Workers : pc[w] = "w_exit"

\* C8: every item in the pool's FIFO when stop has been requested on every
\* worker is executed by some worker before the workers exit (stated for
\* runs without undefined behaviour).
C8_FifoDrainedBeforeExit ==
  (AllExited /\ ~ub) => fifo_at_stop = {}

\* C9: a task that is in scheduled_queue_ when stop is requested on the
\* JobQueue never has its body started afterwards (stated for runs without
\* undefined behaviour).
C9_ScheduledAtStopNeverRuns ==
  [][\A w \in Workers :
       (Starts(w) /\ ~ub') => cur'[w].id \notin left_at_stop]_vars

\* C10: every submit* call returns to its caller without waiting for a body
\* to run or finish, however busy the workers: a call in progress reaches
\* its return, and the mutexes a call takes are free again and again,
\* although no body ever has to return.
C10_SubmitReturns ==
  /\ \A c \in Callers : (pc[c] # "idle") ~> (pc[c] = "idle")
  /\ []<>(/\ ready_mutex_ = NoThread
          /\ scheduled_mutex_ = NoThread
          /\ queue_mutex = NoThread)

C10_Witness ==
  /\ \A w \in Workers : pc[w] = "w_body"
  /\ tasks # <<>>
  /\ \E c \in Callers : pc[c] = "enq_unlock"

\* The Tasks of handle h in each place: the queues, the pool (its FIFO and
\* the workers running a wrapper), and the locals of a thread that carries a
\* Task from one place to the next (popped and not yet enqueued, promoted
\* and not yet pushed, made and not yet rescheduled).
PlacesOf(h) ==
  Cardinality({t \in scheduled_queue_ : t.id = h})
  + Cardinality({t \in ready_queue_ : t.id = h})
  + Cardinality({i \in 1..Len(tasks) : tasks[i].id = h})
  + Cardinality({i \in 1..Len(ready_tasks) : ready_tasks[i].id = h})
  + Cardinality({t \in Threads : /\ cur[t].id = h
                                  /\ pc[t] \in {"enq", "w_body", "w_resched"}})

\* Handle h has a Task in the pool: in the FIFO, or with a worker.
InPool(h) ==
  \/ \E i \in 1..Len(tasks) : tasks[i].id = h
  \/ \E w \in Workers : cur[w].id = h /\ pc[w] = "w_body"

\* Handle h has a Task in ready_queue_ or scheduled_queue_.
InQueues(h) == \E t \in ready_queue_ \cup scheduled_queue_ : t.id = h

\* C11: a Task is in at most one of scheduled_queue_, ready_queue_ and the
\* pool at a time, and a Task that is in the pool is not pushed into a queue
\* again: what a recurring wrapper pushes is the Task it has newly made.
C11_OnePlaceNeverRequeued ==
  [][\A h \in Handles :
       /\ PlacesOf(h)' <= 1
       /\ InPool(h) => ~InQueues(h)']_vars

\* C11's case: the next Task of a recurring handle waits in scheduled_queue_
\* after an earlier one has run.
C11_Witness ==
  \E h \in Handles :
    /\ origin[h] = "recurring"
    /\ runs[h] >= 1
    /\ \E t \in scheduled_queue_ : t.id = h
    /\ PlacesOf(h) = 1

\* Thread d pops a task of ready_queue_ that it will hand to the pool.
Pops(d) == pc[d] # "enq" /\ pc'[d] = "enq"

\* C12: of two tasks that are in ready_queue_ together and not cancelled,
\* the one of higher priority goes to the pool first, and of two of equal
\* priority the one with the earlier scheduled_time: a task that is popped
\* for the pool leaves no such task behind.  (The thread that pops keeps
\* ready_mutex_ until its task is in the FIFO.)
C12_ReadyQueueHandsOverInOrder ==
  [][\A d \in Callers \cup {Sched} :
       Pops(d) =>
         \A u \in ready_queue_' :
           ~cancelled_[u.id] =>
             /\ u.priority <= cur'[d].priority
             /\ u.priority = cur'[d].priority => u.st >= cur'[d].st]_vars

\* C12's case: a task is on its way to the FIFO, the thread still holds
\* ready_mutex_, and a task of lower priority, not cancelled, waits behind it.
C12_Witness ==
  \E d \in Callers \cup {Sched} :
    /\ pc[d] = "enq"
    /\ ready_mutex_ = d
    /\ \E u \in ready_queue_ :
         ~cancelled_[u.id] /\ u.priority < cur[d].priority

\* The scheduler ends a pass over scheduled_queue_ (lines 312-322).
EndsPass == pc[Sched] = "s_pops" /\ pc'[Sched] # "s_pops"

\* C13: scheduled_queue_ is ordered by due time, and a pass of the scheduler
\* that is not stopping promotes every task that is due and not cancelled:
\* after the pass no such task is left in scheduled_queue_, whatever the
\* priorities of the others.
C13_PassPromotesEveryDueTask ==
  [][EndsPass =>
       \A t \in scheduled_queue_' : ~cancelled_[t.id] => t.st > 0]_vars

\* The mutexes thread t holds.
HeldBy(t) ==
  {m \in {"ready_mutex_", "scheduled_mutex_", "queue_mutex"} :
     \/ m = "ready_mutex_" /\ ready_mutex_ = t
     \/ m = "scheduled_mutex_" /\ scheduled_mutex_ = t
     \/ m = "queue_mutex" /\ queue_mutex = t}

\* Thread t is about to take a mutex: its next step begins with a lock.
AboutToLock(t) ==
  pc[t] \in {"idle", "prq_lock", "enq", "s_top", "s_wait", "s_promote",
             "w_lock", "w_blocked", "w_resched", "gs_sched", "gs_pool"}

\* C14: no thread ever holds two of ready_mutex_, scheduled_mutex_ and
\* queue_mutex at the same time.
C14_NoTwoLocks ==
  \A t \in Threads : Cardinality(HeldBy(t)) <= 1

\* C14 as the code has it: the one nesting is queue_mutex taken inside
\* ready_mutex_, by the thread that drains ready_queue_ and is in enqueue;
\* every other lock is taken by a thread that holds none, and
\* scheduled_mutex_ is never held together with another.
C14_OnlyQueueInsideReady ==
  \A t \in Threads :
    /\ Cardinality(HeldBy(t)) = 2 =>
         /\ HeldBy(t) = {"ready_mutex_", "queue_mutex"}
         /\ pc[t] = "enq_unlock"
    /\ Cardinality(HeldBy(t)) <= 2
    /\ AboutToLock(t) =>
         HeldBy(t) = IF pc[t] = "enq" THEN {"ready_mutex_"} ELSE {}

\* C14's case: the scheduler thread, promoting, is in enqueue with both
\* ready_mutex_ and queue_mutex.
C14_Witness ==
  /\ HeldBy(Sched) = {"ready_mutex_", "queue_mutex"}
  /\ pc[Sched] = "enq_unlock"

\* The owner of the mutex thread t must take for its next step, NoThread
\* when that mutex is free or the step takes none.
WaitsFor(t) ==
  IF pc[t] \in {"prq_lock", "s_promote"} THEN ready_mutex_
  ELSE IF pc[t] \in {"enq", "w_lock", "gs_pool"} THEN queue_mutex
  ELSE IF pc[t] = "w_blocked" /\ t \in notified THEN queue_mutex
  ELSE IF pc[t] \in {"w_resched", "gs_sched"} THEN scheduled_mutex_
  ELSE IF pc[t] = "s_top" /\ ~sched_stop THEN scheduled_mutex_
  ELSE IF pc[t] = "s_wait" /\ (wait_left = 0 \/ t \in notified)
    THEN scheduled_mutex_
  ELSE NoThread

\* Where the chain of waits that starts at t is after n links.
RECURSIVE WaitChain(_, _)
WaitChain(t, n) ==
  IF n = 0 \/ t = NoThread THEN t ELSE WaitChain(WaitsFor(t), n - 1)

\* C15: no lock deadlock: no set of threads in which each waits for a lock
\* another of the set holds (nor a thread waiting for a lock it holds
\* itself).  Every chain of waits ends, within as many links as there are
\* threads, at a thread that waits for no lock.
C15_NoLockDeadlock ==
  \A t \in Threads : WaitChain(t, Cardinality(Threads)) = NoThread

\* C15's case: a chain of two waits: the caller waits for ready_mutex_, which
\* the draining scheduler holds while it waits for queue_mutex, which a
\* worker holds.
C15_Witness ==
  \E c \in Callers, w \in Workers :
    /\ pc[c] = "prq_lock" /\ WaitsFor(c) = Sched
    /\ pc[Sched] = "enq" /\ WaitsFor(Sched) = w
    /\ WaitsFor(w) = NoThread

\* The scheduler, blocked in wait_for with its deadline still ahead, is woken
\* by the notify of a push and leaves the blocked state.
WokenByPush ==
  /\ pc[Sched] = "s_wait"
  /\ Sched \in notified
  /\ wait_left > 0
  /\ ~sched_stop
  /\ pc'[Sched] # "s_wait"

\* C16: the scheduler's wait ends when an item is pushed into
\* scheduled_queue_: woken by the push, it goes on with a wake deadline taken
\* from the queue as it now is, not with the one it had before the push.
C16_PushEndsWait ==
  [][WokenByPush => wait_left' <= WaitDuration(scheduled_queue_')]_vars

\* The scheduler computes wait_duration (lines 292-302) and enters wait_for.
ComputesDeadline == pc[Sched] = "s_top" /\ pc'[Sched] = "s_prewait"

\* Ticks until the earliest scheduled_time in q, none when that is past.
EarliestDue(q) ==
  LET t == CHOOSE t \in q : \A u \in q : t.st <= u.st
  IN Max(t.st, 0)

\* C17: the wake deadline the scheduler computes is the earliest
\* scheduled_time among all tasks in scheduled_queue_, and the fallback poll
\* interval when it is empty: it does not sleep past a queued task's due
\* time because a later-due task is on top.
C17_DeadlineIsEarliestDue ==
  [][ComputesDeadline =>
       wait_left' = IF scheduled_queue_ = {} THEN PollInterval
                    ELSE EarliestDue(scheduled_queue_)]_vars

\* ------------------------------------------- the two priority queues alone
\* std::priority_queue<shared_ptr<Task>, vector, TaskComparator> as the two
\* members use it: push of any Task, and top() followed by pop().  The
\* insertion order leaves no trace in a set, as it leaves none in what top()
\* returns.
MaxQueued == 4     \* tasks in the two queues together

PushReady(h, p, time) ==
  /\ Cardinality(ready_queue_) + Cardinality(scheduled_queue_) < MaxQueued
  /\ \A t \in ready_queue_ : t.id # h
  /\ ready_queue_' = ready_queue_ \cup {MakeTask(h, p, time, 0, FALSE)}
  /\ UNCHANGED <<scheduled_queue_, tasks, cancelled_, mutexes, pc, cur,
                 ready_tasks, wait_left, notified, stops, next_handle,
                 stats, history, num_threads>>

PushScheduled(h, p, time) ==
  /\ Cardinality(ready_queue_) + Cardinality(scheduled_queue_) < MaxQueued
  /\ \A t \in scheduled_queue_ : t.id # h
  /\ scheduled_queue_' = scheduled_queue_ \cup {MakeTask(h, p, time, 0, FALSE)}
  /\ UNCHANGED <<ready_queue_, tasks, cancelled_, mutexes, pc, cur,
                 ready_tasks, wait_left, notified, stops, next_handle,
                 stats, history, num_threads>>

PopTopReady ==
  /\ \E t \in Top(ready_queue_) : ready_queue_' = ready_queue_ \ {t}
  /\ UNCHANGED <<scheduled_queue_, tasks, cancelled_, mutexes, pc, cur,
                 ready_tasks, wait_left, notified, stops, next_handle,
                 stats, history, num_threads>>

PopTopScheduled ==
  /\ \E t \in Top(scheduled_queue_) :
       scheduled_queue_' = scheduled_queue_ \ {t}
  /\ UNCHANGED <<ready_queue_, tasks, cancelled_, mutexes, pc, cur,
                 ready_tasks, wait_left, notified, stops, next_handle,
                 stats, history, num_threads>>

PushAny ==
  \E h \in Handles, p \in Priority, time \in Delays :
    \/ PushReady(h, p, time)
    \/ PushScheduled(h, p, time)

NextHeap ==
  \/ PushAny
  \/ PopTopReady
  \/ PopTopScheduled

SpecHeap == InitOne /\ [][NextHeap]_vars

\* t is, in q, of the highest priority and the earliest among those.
HighestThenEarliest(t, q) ==
  \A u \in q :
    /\ u.priority <= t.priority
    /\ u.priority = t.priority => t.st <= u.st

\* C18: in ready_queue_ and in scheduled_queue_ alike, top() is an element
\* of the highest priority present and, among those, of the earliest
\* scheduled_time, whatever tasks were pushed and in whatever order.
C18_TopIsHighestThenEarliest ==
  \A q \in {ready_queue_, scheduled_queue_} :
    q # {} =>
      /\ Top(q) # {}
      /\ \A t \in Top(q) : HighestThenEarliest(t, q)

\* scheduled_queue_ holds a lower task due earlier than a higher one, and
\* ready_queue_ two of one priority due at different times.
C18_Witness ==
  /\ \E t, u \in scheduled_queue_ : t.priority < u.priority /\ t.st < u.st
  /\ \E t, u \in ready_queue_ : t.priority = u.priority /\ t.st < u.st

\* Thread t has pushed into ready_queue_ and is not yet through the drain
\* that follows (lines 238-240, 252-284).
Draining(t) == pc[t] \in {"prq_lock", "enq", "enq_unlock"}

\* Caller c's submit returns.
SubmitReturns(c) == Draining(c) /\ pc'[c] = "idle"

\* C19: when submit returns, the task it pushed is no longer in
\* ready_queue_ (no task of a submit is there, but those of callers still
\* in their own drain); and ready_queue_ holds a task only while some
\* thread is between its push and the end of its drain.
C19_DrainedWhenSubmitReturns ==
  [][/\ \A c \in Callers :
          SubmitReturns(c) =>
            \A u \in ready_queue_' :
              origin[u.id] = "submit" =>
                \E d \in Callers \ {c} : Draining(d)'
     /\ ready_queue_' # {} => \E t \in Threads : Draining(t)']_vars

\* A submitted task is in the pool's FIFO, its caller is back from submit,
\* and ready_queue_ holds a task the scheduler is promoting.
C19_Witness ==
  /\ \E c \in Callers : pc[c] = "idle"
  /\ \E i \in 1..Len(tasks) : origin[tasks[i].id] = "submit"
  /\ ready_queue_ # {}
  /\ Draining(Sched)

\* The body worker w was running returns (task->func() is over).
Completes(w) == pc[w] = "w_body" /\ pc'[w] # "w_body"

\* C20: the next Task of a recurring task is made only after the running
\* invocation has completed (while the body runs, the running Task is the
\* only one of its handle), with scheduled_time = completion instant +
\* recurring_interval, whatever the scheduled_time of the Task that ran;
\* and a later invocation starts only once that scheduled_time is reached,
\* so at least recurring_interval after the end of the earlier one.
C20_NextFiringFromCompletion ==
  [][\A w \in Workers :
       /\ \A h \in Handles :
            (pc'[w] = "w_body" /\ cur'[w].rec /\ cur'[w].id = h) =>
              PlacesOf(h)' = 1
       /\ (Completes(w) /\ pc'[w] = "w_resched") =>
            /\ cur[w].rec
            /\ cur'[w].id = cur[w].id
            /\ cur'[w].st = cur[w].ri
            /\ cur'[w].ri = cur[w].ri
       /\ (Starts(w) /\ cur'[w].rec /\ runs[cur'[w].id] >= 1) =>
            cur'[w].st <= 0]_vars

\* The second invocation of a recurring body of interval 2 ticks is running.
C20_Witness ==
  \E w \in Workers :
    /\ pc[w] = "w_body" /\ cur[w].rec /\ cur[w].ri = 2
    /\ runs[cur[w].id] >= 2

\* --------------------------------------------------- a body that throws
\* Mutant: the wrapper reschedules on its way out, thrown or not.
PushedOnThrow_reschedules(t) ==
  IF Reschedules(t) THEN {NextTask(t)} ELSE {}

\* What the recurring wrapper pushes when task->func() throws: lines 268-274
\* come after the call and are skipped by the unwinding.
PushedOnThrow(t) == {}

\* task->func() throws (lines 265, 280).  Neither wrapper nor the worker's
\* lambda (lines 84-103) has a handler, so the exception leaves the thread's
\* function and std::terminate ends the process: the thrower and every
\* other thread stop where they are.
AfterThrow(w) ==
  [t \in Threads |->
     IF t = w THEN "threw"
     ELSE IF pc[t] = "w_none" THEN "w_none" ELSE "terminated"]

BodyThrows(w) ==
  /\ w \in Workers
  /\ pc[w] = "w_body"
  /\ pc' = AfterThrow(w)
  /\ scheduled_queue_' = scheduled_queue_ \cup PushedOnThrow(cur[w])
  /\ UNCHANGED <<num_threads, ready_queue_, tasks, cancelled_, mutexes, cur,
                 ready_tasks, wait_left, notified, stops, next_handle, stats,
                 history>>

Throw == \E w \in AllWorkers : BodyThrows(w)

\* Callers of submit and submit_recurring whose bodies may throw.
CallerThrow ==
  \E c \in Callers :
    /\ next_handle < MainTasks
    /\ \/ Submit(c, Low)
       \/ SubmitRecurring(c, 1, Low)

NextThrow ==
  \/ CallerThrow
  \/ Engine
  \/ Throw

SpecThrow == Init /\ [][NextThrow]_vars

\* Worker w's body has thrown.
Threw(w) == pc[w] = "threw"

\* C21: when an invocation of a recurring body throws, no next Task of that
\* chain is made or pushed into scheduled_queue_: from the throw on, the
\* chain has no Task in any queue, its body is not invoked again, and
\* scheduled_queue_ does not grow.
C21_FailedChainStops ==
  [][\A w \in Workers, h \in Handles :
       (Threw(w)' /\ cur'[w].rec /\ cur'[w].id = h) =>
         /\ ~InQueues(h)' /\ ~(\E i \in 1..Len(tasks') : tasks'[i].id = h)
         /\ runs'[h] = runs[h]
         /\ Cardinality(scheduled_queue_') <= Cardinality(scheduled_queue_)
    ]_vars

\* The body of a recurring task has thrown in its second invocation, with
\* another task still queued.
C21_Witness ==
  \E w \in Workers :
    /\ Threw(w) /\ cur[w].rec /\ runs[cur[w].id] >= 2
    /\ scheduled_queue_ \cup ready_queue_ # {} \/ tasks # <<>>

\* A body running on worker w throws in this step.
Throws(w) == pc[w] = "w_body" /\ Threw(w)'

\* C27: a body that throws is fatal only to the worker that ran it: every
\* other thread goes on as it was, so that the items still in the pool's
\* FIFO can be run by the remaining workers.
C27_ThrowStopsOnlyItsWorker ==
  [][\A w \in Workers :
       Throws(w) =>
         \A t \in (Workers \cup {Sched}) \ {w} : pc'[t] = pc[t]]_vars

\* A worker dequeues the front of the pool's FIFO (lines 98-99).
Dequeues == Len(tasks') < Len(tasks)

\* C22: the cancellation flag is consulted only at the pops from
\* scheduled_queue_ and ready_queue_, before dispatch: a task handed to the
\* pool's FIFO has its body run when a worker dequeues it, whether or not
\* its flag was set in between.
C22_DispatchedTaskRuns ==
  [][Dequeues =>
       \E w \in Workers : Starts(w) /\ cur'[w].id = Head(tasks).id]_vars

\* ------------------------------------------- get_stats while tasks move
\* A caller that submits delayed tasks, cancels them and calls get_stats at
\* any moment.
CallerSnap ==
  \E c \in Callers :
    \/ \E d \in MainDelays :
         next_handle < MainTasks /\ SubmitDelayed(c, d, Low)
    \/ \E h \in Handles : Cancel(c, h)
    \/ GetStatsReady(c)
    \/ GetStatsScheduled(c)
    \/ GetStatsPool(c)
    \/ GetStatsReturn(c)

NextSnap ==
  \/ CallerSnap
  \/ Engine

SpecSnap == InitOne /\ [][NextSnap]_vars

\* cancel() is called in this step.
Cancels == cancelled_' # cancelled_

\* The cancelled Tasks in scheduled_queue_.
CancelledScheduled == {t \in scheduled_queue_ : cancelled_[t.id]}

\* C23: cancel() changes only the shared flag, and leaves ready_queue_,
\* scheduled_queue_ and the pool's FIFO as they are; a cancelled Task in
\* scheduled_queue_ is counted in get_stats' scheduled_tasks, and stays
\* there until the scheduler's pop loop takes it out, when it is due.
C23_CancelTouchesOnlyTheFlag ==
  [][/\ Cancels => UNCHANGED <<queues, ready_tasks, cur, pc, mutexes>>
     /\ \A t \in CancelledScheduled :
          (\A u \in scheduled_queue_' : u.id # t.id) =>
            pc[Sched] = "s_pops" /\ t.st <= 0
     /\ \A c \in Callers :
          (pc[c] = "gs_sched" /\ pc'[c] = "gs_pool") =>
            stats'[c][2] = Cardinality(CancelledScheduled)
                           + Cardinality(scheduled_queue_ \ CancelledScheduled)
    ]_vars

\* get_stats has read scheduled_tasks >= 1 while every Task in
\* scheduled_queue_ is cancelled.
C23_Witness ==
  \E c \in Callers :
    /\ pc[c] = "gs_pool" /\ stats[c][2] >= 1
    /\ scheduled_queue_ # {} /\ CancelledScheduled = scheduled_queue_

\* The handles of the wrappers in a FIFO, front first.
Ids(q) == [i \in 1..Len(q) |-> q[i].id]

\* C24: the pool's FIFO is first-in first-out and hands each item to one
\* worker: a step changes it only by adding one item at the back or by
\* taking the front item, and the item taken goes to no more than one
\* worker, the others keeping what they had.
C24_FifoOrderOneTaker ==
  [][\/ Ids(tasks') = Ids(tasks)
     \/ /\ Len(tasks') = Len(tasks) + 1
        /\ SubSeq(Ids(tasks'), 1, Len(tasks)) = Ids(tasks)
        /\ \A w \in Workers : pc'[w] = pc[w]
     \/ /\ tasks # <<>>
        /\ Ids(tasks') = Tail(Ids(tasks))
        /\ Cardinality({w \in Workers : pc'[w] # pc[w]}) <= 1
        /\ \A w \in Workers :
             Starts(w) => cur'[w].id = Head(tasks).id]_vars

\* With two workers: one runs the item that was first in the FIFO, the
\* item enqueued after it is still there, and the other worker is about to
\* dequeue.
C24_Witness ==
  /\ num_threads = 2
  /\ tasks # <<>>
  /\ \E w, v \in Workers :
       /\ pc[w] = "w_body" /\ cur[w].id < Head(tasks).id
       /\ pc[v] = "w_lock"

\* ------------------------------------------------ destruction, scheduled
\* Every thread that can take a step does so in the end, the owner's
\* destructor included; bodies return.
FairnessStop ==
  /\ SF_vars(SchedStep)
  /\ \A t \in Callers \cup {Sched} : SF_vars(DrainOf(t))
  /\ \A w \in AllWorkers :
       SF_vars(w \in Workers /\ (\/ WorkerTop(w)
                                 \/ WorkerLock(w)
                                 \/ WorkerBlock(w)
                                 \/ WorkerReturn(w)))
  /\ WF_vars(Tick)
  /\ SF_vars(Destructor)

SpecStop == Init /\ [][NextShutdown]_vars /\ FairnessStop

\* The scheduler thread and every worker have left their loops.
ThreadsExited ==
  /\ pc[Sched] = "s_exit"
  /\ \A w \in Workers : pc[w] = "w_exit"

\* Both destructors have requested stop and notified the waiters.
StopNotified ==
  dtor \in {"d_pool_members", "d_join", "d_done"}

\* C25: once the destructors have requested stop and notified all waiters,
\* the scheduler thread and every worker eventually exit: none stays
\* blocked in its wait because the stop request and the notification came
\* between its predicate test and its blocking.  (Runs that use a destroyed
\* member are left aside.)
C25_ThreadsExitAfterStop == StopNotified ~> (ThreadsExited \/ ub)

\* The triple of a get_stats call added up.
StatsSum(c) == stats[c][1] + stats[c][2] + stats[c][3]

\* Handle h's Task is waiting to be run: in a queue, or in the hands of
\* the thread that moves it to the next one.
Pending(h) == ~cancelled_[h] /\ PlacesOf(h) = 1 /\ ~InBody(h)

\* C26: get_stats takes ready_mutex_, scheduled_mutex_ and queue_mutex one
\* after another and never two together: between its reads the caller
\* holds no lock, so that tasks move while it counts and its triple is not
\* a snapshot.
C26_StatsHoldsNoLockBetweenReads ==
  \A c \in Callers :
    pc[c] \in {"gs_sched", "gs_pool", "gs_done"} => HeldBy(c) = {}

\* A single Task, on its way through ready_queue_ to the FIFO during the
\* call, was counted in two fields: the triple adds up to 2 while one task
\* exists.
C26_Witness ==
  \E c \in Callers :
    /\ pc[c] = "gs_done" /\ next_handle = 1
    /\ stats[c][1] = 1 /\ stats[c][3] = 1

\* The other case of C26: a single Task that was waiting throughout the
\* call, on its way from scheduled_queue_ to the FIFO, was counted in no
\* field.
C26_CountedInNone ==
  \E c \in Callers :
    /\ pc[c] = "gs_done" /\ next_handle = 1 /\ Pending(1)
    /\ StatsSum(c) = 0

\* The body of the one-shot task of handle h has run and returned.
Finished(h) == OneShot(h) /\ runs[h] >= 1 /\ ~InBody(h)

\* C28: cancel() on the handle of a non-recurring task whose body has
\* finished is a no-op: the task has left every queue and is never run
\* again, and the cancel step changes no queue, lock or thread and raises no
\* error; only the flag becomes true.
C28_CancelAfterRunIsNoOp ==
  [][\A h \in Handles :
       Finished(h) =>
         /\ Gone(h)' /\ runs'[h] = runs[h]
         /\ (cancelled_'[h] /\ ~cancelled_[h]) =>
              UNCHANGED <<queues, ready_tasks, cur, pc, mutexes, runs, ub>>
    ]_vars

\* A one-shot task has run once and is gone, its handle is cancelled, and
\* another task is still queued.
C28_Witness ==
  \E h \in Handles :
    /\ OneShot(h) /\ runs[h] = 1 /\ Gone(h) /\ cancelled_[h]
    /\ scheduled_queue_ # {}

\* C29: during the destruction of a JobQueue no worker and not the
\* scheduler thread uses a queue, mutex or condition variable that has been
\* destroyed: every thread that uses them has been joined before they go.
C29_NoUseAfterDestruction == ~ub

\* The workers running the body of handle h.
RunningBody(h) == {w \in Workers : pc[w] = "w_body" /\ cur[w].id = h}

\* C30: of the chain of one submit_recurring call at most one Task exists
\* at any instant, in scheduled_queue_, ready_queue_, the pool's FIFO or on
\* a worker; so two invocations of one recurring body never run at the same
\* time, however many workers there are.
C30_OneTaskPerChain ==
  \A h \in Handles :
    origin[h] = "recurring" =>
      /\ PlacesOf(h) <= 1
      /\ Cardinality(RunningBody(h)) <= 1

\* With two workers, one idle: a recurring body is in its second
\* invocation or later.
C30_Witness ==
  /\ num_threads = 2
  /\ \E h \in Handles, w \in Workers :
       /\ origin[h] = "recurring" /\ runs[h] >= 2
       /\ RunningBody(h) = {w}
       /\ \E v \in Workers \ {w} : pc[v] \in {"w_lock", "w_blocked"}

\* ------------------------------------------ bodies that call submit*
\* A body may call submit* on the JobQueue that runs it.  The call runs on
\* the worker's thread, which holds no mutex inside task() (AfterPop), so
\* its steps are those of a caller's call; the body does not return before
\* the call it makes has returned.  The first task comes from outside.
SomeBodyRuns == \E w \in Workers : pc[w] = "w_body"

CallerNested ==
  \E c \in Callers :
    /\ next_handle < MainTasks
    /\ next_handle = 0 \/ SomeBodyRuns
    /\ \/ Submit(c, Low)
       \/ SubmitDelayed(c, 1, Low)
       \/ SubmitRecurring(c, 1, Low)

\* The body on worker w returns: no call it made is still in progress (a
\* call in progress is that of another body still running).
NestedReturn(w) ==
  /\ CallersIdle \/ \E v \in Workers \ {w} : pc[v] = "w_body"
  /\ WorkerReturn(w)

WorkerNestedOf(w) ==
  /\ w \in Workers
  /\ \/ WorkerTop(w)
     \/ WorkerLock(w)
     \/ WorkerBlock(w)
     \/ NestedReturn(w)
     \/ WorkerResched(w)

WorkerNested == \E w \in AllWorkers : WorkerNestedOf(w)

NextNested ==
  \/ CallerNested
  \/ DrainStep
  \/ SchedStep
  \/ WorkerNested
  \/ Tick

FairnessNested ==
  /\ SF_vars(SchedStep)
  /\ \A t \in Callers \cup {Sched} : SF_vars(DrainOf(t))
  /\ \A w \in AllWorkers : SF_vars(WorkerNestedOf(w))
  /\ WF_vars(Tick)

SpecNested == Init /\ [][NextNested]_vars /\ FairnessNested

\* A call of submit* made by a running body is in progress.
NestedCall(c) == pc[c] # "idle" /\ SomeBodyRuns

\* C31: a body running on a worker can call submit* on its own JobQueue
\* without deadlock: a worker in a body holds none of the three mutexes, no
\* draining thread is inside a body, and a call made by a body reaches its
\* return.
C31_NestedSubmitReturns ==
  /\ [](\A w \in Workers : pc[w] = "w_body" => HeldBy(w) = {})
  /\ \A c \in Callers : NestedCall(c) ~> (pc[c] = "idle")

\* Every worker is inside a body, and the submit call one of them makes
\* holds ready_mutex_ and is about to take queue_mutex in enqueue.
C31_Witness ==
  /\ next_handle >= 2
  /\ \A w \in Workers : pc[w] = "w_body" /\ HeldBy(w) = {}
  /\ \E c \in Callers : pc[c] = "enq" /\ ready_mutex_ = c

\* --------------------------------------- two delayed tasks, one cancelled
\* A caller submits delayed tasks with the same delay and cancels the
\* handle of the first at any moment, before or after the second submit.
CallerFlags ==
  \E c \in Callers :
    \/ next_handle < MainTasks /\ SubmitDelayed(c, 1, Low)
    \/ Cancel(c, 1)

NextFlags ==
  \/ CallerFlags
  \/ Engine

SpecFlags == Init /\ [][NextFlags]_vars /\ Fairness

\* C32: every submit* call makes a flag of its own, so cancel() on one
\* handle neither prevents nor holds up the task of another call: of two
\* tasks submitted with the same delay, the second ends up having run
\* exactly once, whether and whenever the first is cancelled, and its flag
\* stays clear.
C32_OtherHandleStillRuns ==
  <>[](origin[2] = "delayed" => runs[2] = 1 /\ ~cancelled_[2])

\* The first of two tasks was cancelled and never ran; the second has run.
C32_Witness ==
  /\ origin[1] = "delayed" /\ cancelled_[1] /\ runs[1] = 0
  /\ origin[2] = "delayed" /\ ~cancelled_[2] /\ runs[2] = 1

\* The threads inside a task body.
InsideBody == {t \in Threads : pc[t] = "w_body"}

\* C33: the bodies executing at any instant are at most num_threads, the
\* worker count given to the constructor: a body runs only on one of the
\* pool's num_threads workers, never on a caller's thread inside submit*
\* and never on the scheduler thread.
C33_BodiesOnlyOnWorkers ==
  /\ InsideBody \subseteq Workers
  /\ Cardinality(InsideBody) <= num_threads
  /\ Cardinality(Workers) = num_threads

\* The one worker is inside a body while the scheduler thread is in
\* enqueue with a task it promotes: that task's body has to wait.
C33_Witness ==
  /\ num_threads = 1
  /\ Cardinality(InsideBody) = 1
  /\ pc[Sched] = "enq" /\ cur[Sched] # NoTask

\* get_stats reads the pool in this step (line 230).
ReadsPool(c) == pc[c] = "gs_pool" /\ pc'[c] = "gs_done"

\* C34: executing_tasks is the number of items waiting in the pool's FIFO
\* when pending_tasks takes queue_mutex; an item a worker has dequeued and
\* is running is in none of the three fields, which the read of the pool
\* leaves as read before.
C34_ExecutingCountsOnlyFifo ==
  [][\A c \in Callers :
       ReadsPool(c) =>
         /\ stats'[c][3] = Len(tasks)
         /\ stats'[c][1] = stats[c][1]
         /\ stats'[c][2] = stats[c][2]]_vars

\* get_stats reports {0, 0, 0} while a body is running.
C34_Witness ==
  \E c \in Callers :
    /\ pc[c] = "gs_done" /\ stats[c] = <<0, 0, 0>>
    /\ \E w \in Workers : pc[w] = "w_body"

\* C35: a cancellation flag is monotonic: once cancel() has set it, it
\* reads true in every later state, for every copy of the handle and every
\* Task of the chain; no step of a caller, the scheduler or a worker clears
\* it.
C35_FlagNeverCleared ==
  [][\A h \in Handles : cancelled_[h] => cancelled_'[h]]_vars

\* A recurring task was cancelled after a run, and its flag is still set
\* while a worker is about to push the next Task of the chain.
C35_Witness ==
  \E w \in Workers :
    /\ pc[w] = "w_resched" /\ cancelled_[cur[w].id]
    /\ runs[cur[w].id] >= 1

====
